---- MODULE Spec2Model ----
(***************************************************************************)
(* Synco (src/main.py): a sync loop supervised through a PID file.         *)
(*                                                                         *)
(* Several invocations of main() run as separate OS processes and share    *)
(* one PID file (the Lock Record).  An invocation without --stop is an     *)
(* instance: is_running(), load_config(), write_pid(), the run loop, and   *)
(* remove_pid() in the finally clause.  An invocation with --stop runs     *)
(* stop_existing().  Each call of the lock API is one atomic step; the     *)
(* steps of different processes interleave freely.                         *)
(***************************************************************************)
EXTENDS Integers, Sequences, FiniteSets, TLC

(* ------------------------------ bounds --------------------------------- *)

\* Number of concurrently started instances (main() without --stop).
NumInstances == 2

\* Number of main() --stop invocations.
NumStoppers == 1

\* Cap on the sync invocations one instance starts (the loop is unbounded).
MaxSyncs == 2

\* Process identifier of a process that has exited (a stale Lock Record).
DeadPid == 7

(* --------------------------- the processes ----------------------------- *)

\* A live process that is not synco, signalable by the caller and ignoring
\* SIGTERM (the "live but unresponsive" target).
ForeignPid == DeadPid + 1

\* A live process of another user: os.kill on it raises PermissionError.
PrivPid == DeadPid + 2

Instances == 1 .. NumInstances
Stoppers == (NumInstances + 1) .. (NumInstances + NumStoppers)
Procs == Instances \cup Stoppers

\* os.getpid() of invocation p.
getpid(p) == DeadPid + 3 + p

\* The status run_rclone returns when the executable is missing.
ExecNotFound == 127

\* Statuses run_rclone can return: success, a failure, executable missing.
Statuses == {0, 1, ExecNotFound}

(* ------------------------ str(pid) and int(text) ----------------------- *)

Digits == <<"0", "1", "2", "3", "4", "5", "6", "7", "8", "9">>

IsSpace(c) == c \in {" ", "\n"}

IsDigit(c) == \E i \in 1 .. 10 : Digits[i] = c

DigitVal(c) == (CHOOSE i \in 1 .. 10 : Digits[i] = c) - 1

\* str(n) for n >= 0: the decimal digits, most significant first.
RECURSIVE str(_)
str(n) == IF n < 10 THEN <<Digits[n + 1]>>
          ELSE Append(str(n \div 10), Digits[(n % 10) + 1])

\* text.strip(): leading and trailing whitespace removed.
RECURSIVE lstrip(_)
lstrip(s) == IF s # <<>> /\ IsSpace(Head(s)) THEN lstrip(Tail(s)) ELSE s

RECURSIVE rstrip(_)
rstrip(s) == IF s # <<>> /\ IsSpace(s[Len(s)])
             THEN rstrip(SubSeq(s, 1, Len(s) - 1)) ELSE s

strip(s) == rstrip(lstrip(s))

RECURSIVE DecimalValue(_)
DecimalValue(s) == IF s = <<>> THEN 0
                   ELSE 10 * DecimalValue(SubSeq(s, 1, Len(s) - 1))
                        + DigitVal(s[Len(s)])

\* int(text) raises ValueError unless text is a nonempty run of digits.
ParseOk(s) == s # <<>> /\ \A i \in 1 .. Len(s) : IsDigit(s[i])

\* int(f.read().strip()): [ok |-> FALSE] stands for the raised ValueError.
ReadPid(content) ==
    LET t == strip(content)
    IN  IF ParseOk(t) THEN [ok |-> TRUE, pid |-> DecimalValue(t)]
        ELSE [ok |-> FALSE, pid |-> 0]

(* ------------------------------ state ---------------------------------- *)

VARIABLES
    pidfile,      \* the Lock Record: [exists, content]
    pc,           \* position of every invocation
    once,         \* args.once of an instance
    no_create_pid,\* args.no_create_pid of an instance
    cfg_ok,       \* whether load_config will succeed for the instance
    syncs,        \* run_rclone invocations the instance has started
    rc,           \* what the last run_rclone call did: [kind, status]
    checked,      \* what is_running() returned to the instance
    stale_removed,\* instances whose is_running() removed the Lock Record
    acquired,     \* the instance has called write_pid
    released,     \* the instance has called remove_pid
    how,          \* how the instance left the loop
    exit_status,  \* the process's exit status
    sigterm,      \* instances with a SIGTERM sent and not yet delivered
    target,       \* the identifier stop_existing read
    sent,         \* the SIGTERMs stop_existing sent: <<[pid, ok]>>
    report        \* the last message stop_existing printed

vars == <<pidfile, pc, once, no_create_pid, cfg_ok, syncs, rc, checked,
          stale_removed, acquired, released, how, exit_status, sigterm,
          target, sent, report>>

\* What a run_rclone call did: nothing yet, returned a status, raised.
NoCall == [kind |-> "none", status |-> 0]

Returned(status) == [kind |-> "returned", status |-> status]

Raised == [kind |-> "raised", status |-> 0]

Absent == [exists |-> FALSE, content |-> <<>>]

File(content) == [exists |-> TRUE, content |-> content]

\* Positions at which an invocation is a live process.
LivePcs == {"is_running", "load_config", "write_pid", "run_rclone", "sleep",
            "finally", "stop_read", "stop_kill", "stop_remove"}

\* The run phase: after the start check and acquire, before the release.
RunPcs == {"run_rclone", "sleep", "finally"}

\* Whether a process with this identifier exists.
Alive(pid) ==
    \/ pid \in {ForeignPid, PrivPid}
    \/ \E p \in Procs : getpid(p) = pid /\ pc[p] \in LivePcs

\* Faulty variant of kill_raises: the probe fails for every process.
kill_raises_always(pid) == TRUE

\* os.kill(pid, sig) raises: no such process, or no permission.
kill_raises(pid) == ~Alive(pid) \/ pid = PrivPid

(* ----------------------------- the lock API ---------------------------- *)

\* Faulty variant of is_running: a stale record is reported but not removed.
is_running_keeps_stale(f) ==
    IF ~f.exists THEN [ret |-> FALSE, file |-> f]
    ELSE LET r == ReadPid(f.content)
         IN  [ret |-> r.ok /\ ~kill_raises(r.pid), file |-> f]

\* is_running(): [ret, file] is the value returned and the Lock Record left.
\* An absent record returns False; a record whose text does not parse or
\* whose process cannot be probed is removed and returns False.
is_running(f) ==
    IF ~f.exists THEN [ret |-> FALSE, file |-> f]
    ELSE LET r == ReadPid(f.content)
         IN  IF r.ok /\ ~kill_raises(r.pid)
             THEN [ret |-> TRUE, file |-> f]
             ELSE [ret |-> FALSE, file |-> Absent]

\* Faulty variant of write_pid: the parent's identifier is written.
write_pid_parent(p) == File(str(getpid(p) - 1))

\* write_pid(): the Lock Record after process p wrote str(os.getpid()).
write_pid(p) == File(str(getpid(p)))

\* Faulty variant of remove_pid: the file is left in place.
remove_pid_keeps(f) == f

\* remove_pid(): the Lock Record after os.remove(pidfile) in a try block:
\* an existing file is deleted; on an absent one os.remove raises, the
\* error is swallowed and nothing changes.
remove_pid(f) == IF f.exists THEN Absent ELSE f

\* Faulty variant of load_config: the config is returned unvalidated.
load_config_unchecked(p) == TRUE

\* load_config(): TRUE when it returns the config, FALSE when it calls
\* sys.exit(1) (file missing, JSON unparseable, required key missing).
load_config(p) == cfg_ok[p]

(* ------------------------------- Init ---------------------------------- *)

\* Lock Records left by earlier runs: none, an empty file, text that is not
\* a number, a dead process (with a trailing newline), a live process that
\* is not synco, a live process of another user.
InitialFiles ==
    { Absent,
      File(<<>>),
      File(<<"p", "i", "d">>),
      File(Append(str(DeadPid), "\n")),
      File(str(ForeignPid)),
      File(str(PrivPid)) }

Init ==
    /\ pidfile \in InitialFiles
    /\ pc = [p \in Procs |-> "idle"]
    /\ once = [p \in Instances |-> FALSE]
    /\ no_create_pid = [p \in Instances |-> FALSE]
    /\ cfg_ok = [p \in Instances |-> TRUE]
    /\ syncs = [p \in Instances |-> 0]
    /\ rc = [p \in Instances |-> NoCall]
    /\ checked = [p \in Instances |-> "none"]
    /\ stale_removed = {}
    /\ acquired = [p \in Instances |-> FALSE]
    /\ released = [p \in Instances |-> FALSE]
    /\ how = [p \in Instances |-> "none"]
    /\ exit_status = [p \in Procs |-> "none"]
    /\ sigterm = {}
    /\ target = [s \in Stoppers |-> [ok |-> FALSE, pid |-> 0]]
    /\ sent = [s \in Stoppers |-> <<>>]
    /\ report = [s \in Stoppers |-> "none"]

(* ------------------------- main(), an instance ------------------------- *)

\* The process is launched: argparse fixes --once and --no-create-pid, and
\* the config file it will find is fixed.
Start(p) ==
    /\ pc[p] = "idle"
    /\ \E o \in BOOLEAN, n \in BOOLEAN, c \in BOOLEAN :
          /\ once' = [once EXCEPT ![p] = o]
          /\ no_create_pid' = [no_create_pid EXCEPT ![p] = n]
          /\ cfg_ok' = [cfg_ok EXCEPT ![p] = c]
    /\ pc' = [pc EXCEPT ![p] = "is_running"]
    /\ UNCHANGED <<pidfile, syncs, rc, checked, stale_removed, acquired,
                   released, how, exit_status, sigterm, target, sent, report>>

\* Faulty variant of after_is_running: the result of the start check is
\* dropped and main always goes on.
after_is_running_ignored(ret) == "load_config"

\* Where main goes after the start check: it returns when is_running()
\* is true and goes on to load_config otherwise.
after_is_running(ret) == IF ret THEN "already" ELSE "load_config"

\* if is_running(): print(...); return
main_is_running(p) ==
    /\ pc[p] = "is_running"
    /\ LET r == is_running(pidfile)
       IN  /\ pidfile' = r.file
           /\ checked' = [checked EXCEPT ![p] =
                             IF r.ret THEN "true" ELSE "false"]
           /\ stale_removed' = IF r.file # pidfile
                               THEN stale_removed \cup {p}
                               ELSE stale_removed
           /\ pc' = [pc EXCEPT ![p] = after_is_running(r.ret)]
    /\ exit_status' = [exit_status EXCEPT ![p] =
                          IF pc'[p] = "already" THEN "zero" ELSE @]
    /\ UNCHANGED <<once, no_create_pid, cfg_ok, syncs, rc, acquired,
                   released, how, sigterm, target, sent, report>>

\* cfg = load_config(args.config)
main_load_config(p) ==
    /\ pc[p] = "load_config"
    /\ IF load_config(p)
       THEN /\ pc' = [pc EXCEPT ![p] = "write_pid"]
            /\ UNCHANGED exit_status
       ELSE /\ pc' = [pc EXCEPT ![p] = "config_exit"]
            /\ exit_status' = [exit_status EXCEPT ![p] = "nonzero"]
    /\ UNCHANGED <<pidfile, once, no_create_pid, cfg_ok, syncs, rc, checked,
                   stale_removed, acquired, released, how, sigterm, target,
                   sent, report>>

\* Faulty variant of creates_pid: --no-create-pid is not honoured.
creates_pid_always(p) == TRUE

\* Whether main calls write_pid(): not args.no_create_pid.
creates_pid(p) == ~no_create_pid[p]

\* if not args.no_create_pid: write_pid(); then the try block is entered
\* and run_rclone is called for the first time.
main_write_pid(p) ==
    /\ pc[p] = "write_pid"
    /\ IF creates_pid(p)
       THEN /\ pidfile' = write_pid(p)
            /\ acquired' = [acquired EXCEPT ![p] = TRUE]
       ELSE UNCHANGED <<pidfile, acquired>>
    /\ pc' = [pc EXCEPT ![p] = "run_rclone"]
    /\ syncs' = [syncs EXCEPT ![p] = 1]
    /\ UNCHANGED <<once, no_create_pid, cfg_ok, rc, checked, stale_removed,
                   released, how, exit_status, sigterm, target, sent, report>>

\* Faulty variant of after_run_rclone: run-once is not honoured and main
\* always goes on to time.sleep.
after_run_rclone_always_loops(p, status) == "sleep"

\* Faulty variant of after_run_rclone: a nonzero status breaks the loop.
after_run_rclone_nonzero_breaks(p, status) ==
    IF once[p] \/ status # 0 THEN "finally" ELSE "sleep"

\* Where main goes when run_rclone returned a status: run-once leaves the
\* try block, the loop goes to time.sleep whatever the status.
after_run_rclone(p, status) == IF once[p] THEN "finally" ELSE "sleep"

\* run_rclone returns: the subprocess's status, or 127 when it was not found.
run_rclone_returns(p) ==
    /\ pc[p] = "run_rclone"
    /\ \E status \in Statuses :
          /\ rc' = [rc EXCEPT ![p] = Returned(status)]
          /\ pc' = [pc EXCEPT ![p] = after_run_rclone(p, status)]
          /\ how' = [how EXCEPT ![p] =
                        IF once[p] THEN "returned" ELSE how[p]]
    /\ UNCHANGED <<pidfile, once, no_create_pid, cfg_ok, syncs, checked,
                   stale_removed, acquired, released, exit_status, sigterm,
                   target, sent, report>>

\* Variant of after_run_rclone_raised with a catch-all at the loop level:
\* the loop logs the error and goes on to time.sleep.
after_run_rclone_raised_caught(p) == IF once[p] THEN "finally" ELSE "sleep"

\* Where main goes when run_rclone raised an error other than
\* FileNotFoundError: main catches KeyboardInterrupt only, so the error
\* leaves the loop through the finally clause.
after_run_rclone_raised(p) == "finally"

\* run_rclone raises (subprocess.run fails with PermissionError or another
\* OSError, a config value is not a string).
run_rclone_raises(p) ==
    /\ pc[p] = "run_rclone"
    /\ rc' = [rc EXCEPT ![p] = Raised]
    /\ pc' = [pc EXCEPT ![p] = after_run_rclone_raised(p)]
    /\ how' = [how EXCEPT ![p] =
                  IF pc'[p] = "finally" THEN "error" ELSE how[p]]
    /\ UNCHANGED <<pidfile, once, no_create_pid, cfg_ok, syncs, checked,
                   stale_removed, acquired, released, exit_status, sigterm,
                   target, sent, report>>

\* time.sleep(args.interval) returns and the loop calls run_rclone again.
sleep_returns(p) ==
    /\ pc[p] = "sleep"
    /\ syncs[p] < MaxSyncs
    /\ pc' = [pc EXCEPT ![p] = "run_rclone"]
    /\ syncs' = [syncs EXCEPT ![p] = syncs[p] + 1]
    /\ UNCHANGED <<pidfile, once, no_create_pid, cfg_ok, rc, checked,
                   stale_removed, acquired, released, how, exit_status,
                   sigterm, target, sent, report>>

\* Faulty variant of on_interrupt: no try block around the loop, so a
\* KeyboardInterrupt leaves main wherever it is raised.
on_interrupt_uncaught(at) == "crashed"

\* Where a KeyboardInterrupt takes main: raised inside the try block it is
\* caught by the except clause and the finally clause follows; raised
\* before the try block it leaves main with a traceback.
on_interrupt(at) == IF at \in {"run_rclone", "sleep"} THEN "finally"
                    ELSE "crashed"

\* SIGINT arrives: Python raises KeyboardInterrupt in the main thread.
KeyboardInterrupt(p) ==
    /\ pc[p] \in {"is_running", "load_config", "write_pid", "run_rclone",
                  "sleep"}
    /\ pc' = [pc EXCEPT ![p] = on_interrupt(pc[p])]
    /\ how' = [how EXCEPT ![p] =
                  IF pc[p] \in {"run_rclone", "sleep"} THEN "interrupted"
                  ELSE @]
    /\ exit_status' = [exit_status EXCEPT ![p] =
                          IF pc'[p] = "crashed" THEN "nonzero" ELSE @]
    /\ UNCHANGED <<pidfile, once, no_create_pid, cfg_ok, syncs, rc, checked,
                   stale_removed, acquired, released, sigterm, target, sent,
                   report>>

\* finally: remove_pid(); then main returns, or the pending error is
\* re-raised and the interpreter exits with a traceback.
main_finally(p) ==
    /\ pc[p] = "finally"
    /\ pidfile' = remove_pid(pidfile)
    /\ released' = [released EXCEPT ![p] = TRUE]
    /\ pc' = [pc EXCEPT ![p] = "exited"]
    /\ exit_status' = [exit_status EXCEPT ![p] =
                          IF how[p] = "error" THEN "nonzero" ELSE "zero"]
    /\ UNCHANGED <<once, no_create_pid, cfg_ok, syncs, rc, checked,
                   stale_removed, acquired, how, sigterm, target, sent,
                   report>>

\* A pending SIGTERM is delivered to the instance: main installs no
\* handler, so the default action ends the process where it stands; no
\* except or finally clause runs.
SIGTERM(p) ==
    /\ p \in sigterm
    /\ pc[p] \in LivePcs
    /\ sigterm' = sigterm \ {p}
    /\ pc' = [pc EXCEPT ![p] = "killed"]
    /\ exit_status' = [exit_status EXCEPT ![p] = "killed"]
    /\ UNCHANGED <<pidfile, once, no_create_pid, cfg_ok, syncs, rc, checked,
                   stale_removed, acquired, released, how, target, sent,
                   report>>

(* --------------------- main() --stop: stop_existing -------------------- *)

\* main() is launched with --stop and calls stop_existing().
StartStop(s) ==
    /\ pc[s] = "idle"
    /\ pc' = [pc EXCEPT ![s] = "stop_read"]
    /\ UNCHANGED <<pidfile, once, no_create_pid, cfg_ok, syncs, rc, checked,
                   stale_removed, acquired, released, how, exit_status,
                   sigterm, target, sent, report>>

\* Faulty variant of stop_existing_exists: the existence test is skipped.
stop_existing_exists_skipped(f) == TRUE

\* if not os.path.exists(pidfile): whether stop_existing goes on to read.
stop_existing_exists(f) == f.exists

\* Faulty variant of stop_existing_unreadable: the file is left behind.
stop_existing_unreadable_keeps(f) == f

\* The Lock Record after the except branch of the read: remove_pid(pidfile).
stop_existing_unreadable(f) == remove_pid(f)

\* No PID file: report "not running" and return.  Unreadable PID file:
\* report the failure, remove it and return.  Otherwise keep the
\* identifier read.
stop_existing_read(s) ==
    /\ pc[s] = "stop_read"
    /\ IF ~stop_existing_exists(pidfile)
       THEN /\ pc' = [pc EXCEPT ![s] = "stopped"]
            /\ exit_status' = [exit_status EXCEPT ![s] = "zero"]
            /\ report' = [report EXCEPT ![s] = "not running"]
            /\ UNCHANGED <<pidfile, target>>
       ELSE LET r == IF pidfile.exists THEN ReadPid(pidfile.content)
                     ELSE [ok |-> FALSE, pid |-> 0]
            IN  IF r.ok
                THEN /\ target' = [target EXCEPT ![s] = r]
                     /\ pc' = [pc EXCEPT ![s] = "stop_kill"]
                     /\ UNCHANGED <<pidfile, exit_status, report>>
                ELSE /\ pidfile' = stop_existing_unreadable(pidfile)
                     /\ pc' = [pc EXCEPT ![s] = "stopped"]
                     /\ exit_status' = [exit_status EXCEPT ![s] = "zero"]
                     /\ report' = [report EXCEPT ![s] = "failed to read"]
                     /\ UNCHANGED target
    /\ UNCHANGED <<once, no_create_pid, cfg_ok, syncs, rc, checked,
                   stale_removed, acquired, released, how, sigterm, sent>>

\* os.kill(pid, signal.SIGTERM) in a try block: an error is printed only.
stop_existing_kill(s) ==
    /\ pc[s] = "stop_kill"
    /\ LET pid == target[s].pid
           ok == ~kill_raises(pid)
       IN  /\ sent' = [sent EXCEPT ![s] = Append(sent[s],
                                             [pid |-> pid, ok |-> ok])]
           /\ sigterm' = IF ok
                         THEN sigterm \cup {p \in Instances : getpid(p) = pid}
                         ELSE sigterm
    /\ pc' = [pc EXCEPT ![s] = "stop_remove"]
    /\ UNCHANGED <<pidfile, once, no_create_pid, cfg_ok, syncs, rc, checked,
                   stale_removed, acquired, released, how, exit_status,
                   target, report>>

\* Faulty variant of stop_existing_cleanup: the Lock Record is removed only
\* when os.kill succeeded.
stop_existing_cleanup_if_signalled(f, signalled) ==
    IF signalled THEN remove_pid(f) ELSE f

\* The Lock Record stop_existing leaves at its end, whatever os.kill did.
stop_existing_cleanup(f, signalled) == remove_pid(f)

\* remove_pid(pidfile); print(...); stop_existing and main return.
stop_existing_remove(s) ==
    /\ pc[s] = "stop_remove"
    /\ pidfile' = stop_existing_cleanup(pidfile, sent[s][Len(sent[s])].ok)
    /\ pc' = [pc EXCEPT ![s] = "stopped"]
    /\ exit_status' = [exit_status EXCEPT ![s] = "zero"]
    /\ report' = [report EXCEPT ![s] = "stopped"]
    /\ UNCHANGED <<once, no_create_pid, cfg_ok, syncs, rc, checked,
                   stale_removed, acquired, released, how, sigterm, target,
                   sent>>

(* ------------------------------- Next ---------------------------------- *)

Next ==
    \/ \E p \in Instances :
          \/ Start(p)
          \/ main_is_running(p)
          \/ main_load_config(p)
          \/ main_write_pid(p)
          \/ run_rclone_returns(p)
          \/ run_rclone_raises(p)
          \/ sleep_returns(p)
          \/ KeyboardInterrupt(p)
          \/ main_finally(p)
          \/ SIGTERM(p)
    \/ \E s \in Stoppers :
          \/ StartStop(s)
          \/ stop_existing_read(s)
          \/ stop_existing_kill(s)
          \/ stop_existing_remove(s)

Spec == Init /\ [][Next]_vars

(* ------------------------------ properties ----------------------------- *)

\* Stop invocation s sent a SIGTERM that reached instance p.
Signalled(s, p) ==
    \E i \in 1 .. Len(sent[s]) :
        sent[s][i] = [pid |-> getpid(p), ok |-> TRUE]

NoStopRequest == \A s \in Stoppers : pc[s] = "idle"

\* C1: at-most-one-instance.  While no stop request is issued, at most one
\* of the instances that took the Lock Record is in the run phase (after
\* its start check and acquire, before its release).
C1_AtMostOneInstance ==
    NoStopRequest =>
        Cardinality({p \in Instances : acquired[p] /\ pc[p] \in RunPcs}) <= 1

\* C2: an interruption delivered in the run phase (during run_rclone or
\* during the sleep, run-once or interval mode) ends the loop: the instance
\* is at its cleanup or past it, the number of sync invocations no longer
\* changes from the moment of the interruption, and the step that leaves
\* the cleanup is remove_pid: the Lock Record is gone and the instance has
\* exited.  (A SIGTERM may still end the process before its cleanup.)
C2_InterruptEndsLoop ==
    /\ [](\A p \in Instances :
            how[p] = "interrupted" =>
                /\ pc[p] \in {"finally", "exited", "killed"}
                /\ pc[p] = "exited" =>
                       released[p] /\ exit_status[p] = "zero")
    /\ [][\A p \in Instances :
            how'[p] = "interrupted" =>
                /\ syncs'[p] = syncs[p]
                /\ (pc[p] = "finally" /\ pc'[p] = "exited") =>
                       ~pidfile'.exists]_vars

\* Interval mode interrupted in the sleep after the first cycle: exactly
\* one sync invocation, the lock released, the process exited.
C2_Witness ==
    \E p \in Instances :
        /\ ~once[p] /\ how[p] = "interrupted" /\ rc[p].kind = "returned"
        /\ syncs[p] = 1 /\ pc[p] = "exited" /\ released[p]
        /\ ~pidfile.exists

\* C3: a run-once instance never sleeps and never starts a second sync
\* invocation; once in the run phase it has started exactly one, and
\* whatever status that one returns the instance goes to its cleanup and
\* has called remove_pid when it has exited.
C3_RunOnce ==
    \A p \in Instances :
        once[p] =>
            /\ pc[p] # "sleep"
            /\ syncs[p] <= 1
            /\ pc[p] \in RunPcs \cup {"exited"} => syncs[p] = 1
            /\ rc[p].kind = "returned" =>
                   /\ how[p] = "returned"
                   /\ pc[p] \in {"finally", "exited", "killed"}
            /\ pc[p] = "exited" => released[p]

\* A run-once instance whose single sync returned a nonzero status has
\* released the lock and exited.
C3_Witness ==
    \E p \in Instances :
        /\ once[p] /\ rc[p] = Returned(1) /\ syncs[p] = 1
        /\ pc[p] = "exited" /\ released[p] /\ ~pidfile.exists

Holder(f) ==
    {p \in Instances : f.exists /\ ReadPid(f.content) =
                                       [ok |-> TRUE, pid |-> getpid(p)]}

\* C6: a start attempt whose is_running() check returned true has aborted:
\* the check left the Lock Record as it was (same existence, same text),
\* and the instance never calls write_pid or remove_pid and never invokes
\* run_rclone.
C6_AlreadyRunningAborts ==
    /\ [](\A p \in Instances :
            checked[p] = "true" =>
                /\ pc[p] = "already"
                /\ ~acquired[p] /\ ~released[p]
                /\ syncs[p] = 0 /\ rc[p] = NoCall)
    /\ [][\A p \in Instances :
            (checked[p] = "none" /\ checked'[p] = "true") =>
                pidfile' = pidfile]_vars

\* A start attempt aborted while another instance, whose identifier the
\* Lock Record holds, is in the run phase.
C6_Witness ==
    \E p \in Instances, q \in Instances :
        /\ p # q /\ pc[p] = "already" /\ checked[p] = "true"
        /\ q \in Holder(pidfile) /\ pc[q] \in RunPcs

\* C7: stop_existing with a Lock Record holding a parseable identifier
\* sends exactly one SIGTERM, to the identifier it read, and then removes
\* the Lock Record and returns, whether os.kill succeeded or raised and
\* whether the target is dead or alive; no step of it waits for the
\* target (its next step is always enabled).
C7_StopSignalsOnceAndRemoves ==
    /\ [](\A s \in Stoppers :
            /\ pc[s] = "stop_kill" =>
                   /\ target[s].ok /\ sent[s] = <<>>
                   /\ ENABLED stop_existing_kill(s)
            /\ pc[s] = "stop_remove" => ENABLED stop_existing_remove(s)
            /\ (target[s].ok /\ pc[s] \in {"stop_remove", "stopped"}) =>
                   /\ Len(sent[s]) = 1
                   /\ sent[s][1].pid = target[s].pid
            /\ ~target[s].ok => sent[s] = <<>>)
    /\ [][\A s \in Stoppers :
            (pc[s] = "stop_remove" /\ pc'[s] # pc[s]) =>
                (pc'[s] = "stopped" /\ ~pidfile'.exists)]_vars

\* stop_existing has signalled a running instance, removed the Lock Record
\* and returned while that instance is still in the run phase.
C7_Witness ==
    \E s \in Stoppers, p \in Instances :
        /\ pc[s] = "stopped" /\ sent[s] = <<[pid |-> getpid(p), ok |-> TRUE]>>
        /\ pc[p] \in RunPcs /\ ~pidfile.exists

\* C8: an instance that a stop request signalled and that is no longer
\* running has left through its own cleanup: it called remove_pid and
\* exited.
C8_SigtermRunsCleanup ==
    \A p \in Instances, s \in Stoppers :
        (Signalled(s, p) /\ pc[p] \notin LivePcs) =>
            (pc[p] = "exited" /\ released[p])

\* C9: when stop_existing has returned and the instance it targeted is
\* still in the run phase, is_running() returns true.
C9_NextCheckDetectsSurvivor ==
    \A s \in Stoppers, p \in Instances :
        (/\ pc[s] = "stopped"
         /\ target[s] = [ok |-> TRUE, pid |-> getpid(p)]
         /\ pc[p] \in RunPcs) =>
            is_running(pidfile).ret

StaleRecord(f) ==
    /\ f.exists
    /\ LET r == ReadPid(f.content) IN ~r.ok \/ ~Alive(r.pid)

\* A Lock Record holding the identifier of a live process.
LiveRecord(f) ==
    /\ f.exists
    /\ LET r == ReadPid(f.content) IN r.ok /\ Alive(r.pid)

\* A Lock Record holding the identifier of a live process that the caller
\* may signal.
ProbeableRecord(f) ==
    /\ f.exists
    /\ LET r == ReadPid(f.content)
       IN  r.ok /\ Alive(r.pid) /\ r.pid # PrivPid

\* C11: stop_existing finding no Lock Record reports "not running" and
\* returns: it sends no signal, no process gets one, and the Lock Record
\* stays absent, also while an instance is running.
C11_StopWithoutRecord ==
    [][\A s \in Stoppers :
         (pc[s] = "stop_read" /\ pc'[s] # pc[s] /\ ~pidfile.exists) =>
            /\ pc'[s] = "stopped" /\ report'[s] = "not running"
            /\ exit_status'[s] = "zero"
            /\ sent'[s] = <<>> /\ sigterm' = sigterm
            /\ pidfile' = pidfile]_vars

\* stop_existing reported "not running" while an instance is in the run
\* phase, and that instance is untouched.
C11_Witness ==
    \E s \in Stoppers, p \in Instances :
        /\ pc[s] = "stopped" /\ report[s] = "not running"
        /\ sent[s] = <<>> /\ ~pidfile.exists
        /\ pc[p] \in RunPcs /\ p \notin sigterm

\* C12: on a corrupt Lock Record or one of a dead process is_running()
\* returns false and removes the record, and called again on what it left
\* it returns false again and leaves the record absent.
C12_StaleRecordRemoved ==
    /\ [](StaleRecord(pidfile) =>
            LET r == is_running(pidfile)
            IN  /\ r = [ret |-> FALSE, file |-> Absent]
                /\ is_running(r.file) = r)
    /\ [][\A p \in Instances :
            (pc[p] = "is_running" /\ checked'[p] # checked[p]
                /\ StaleRecord(pidfile)) =>
               /\ checked'[p] = "false" /\ ~pidfile'.exists
               /\ p \in stale_removed']_vars

\* The start check of an instance removed a stale record and the instance
\* went on; the record is absent.
C12_Witness ==
    \E p \in Instances :
        /\ p \in stale_removed /\ checked[p] = "false"
        /\ pc[p] = "load_config" /\ ~pidfile.exists

\* C13 as stated: on a Lock Record holding the identifier of a live
\* process is_running() returns true and leaves the record as it is.
C13_LiveRecordUntouched ==
    LiveRecord(pidfile) =>
        is_running(pidfile) = [ret |-> TRUE, file |-> pidfile]

\* C13 as amended: on a Lock Record holding the identifier of a live
\* process that the caller may signal, is_running() returns true and
\* leaves the record as it is, and the start check that sees it changes
\* neither the record nor any process's pending signals.
C13_ProbeableRecordUntouched ==
    /\ [](ProbeableRecord(pidfile) =>
            is_running(pidfile) = [ret |-> TRUE, file |-> pidfile])
    /\ [][\A p \in Instances :
            (pc[p] = "is_running" /\ checked'[p] # checked[p]
                /\ ProbeableRecord(pidfile)) =>
               /\ checked'[p] = "true"
               /\ pidfile' = pidfile /\ sigterm' = sigterm
               /\ p \notin stale_removed']_vars

\* A start check returned true on the record of a live process that is
\* not synco; the record is still there.
C13_Witness ==
    \E p \in Instances :
        /\ checked[p] = "true"
        /\ pidfile = File(str(ForeignPid))

\* C14: when an instance calls write_pid, whatever the Lock Record held,
\* the record read back is exactly its identifier; and while the record
\* is the one a live instance wrote, is_running() returns true.
C14_AcquireRoundTrip ==
    /\ [][\A p \in Instances :
            (~acquired[p] /\ acquired'[p]) =>
               /\ pidfile'.exists
               /\ ReadPid(pidfile'.content) =
                     [ok |-> TRUE, pid |-> getpid(p)]]_vars
    /\ [](\A p \in Instances :
            (acquired[p] /\ pc[p] \in LivePcs /\ pidfile = write_pid(p)) =>
               /\ ReadPid(pidfile.content) = [ok |-> TRUE, pid |-> getpid(p)]
               /\ is_running(pidfile) = [ret |-> TRUE, file |-> pidfile])

\* An instance overwrote the record of another running instance: the
\* record now reads as its own identifier.
C14_Witness ==
    \E p \in Instances, q \in Instances :
        /\ p # q /\ acquired[p] /\ acquired[q]
        /\ pc[p] = "run_rclone" /\ pc[q] \in RunPcs
        /\ ReadPid(pidfile.content) = [ok |-> TRUE, pid |-> getpid(p)]
        /\ pidfile.exists

\* C15: remove_pid() deletes the Lock Record when it exists and changes
\* nothing when it is absent; the record is absent afterwards in both
\* cases, applying it twice is applying it once, and the cleanup of an
\* instance always completes and leaves the record absent.
C15_ReleaseIdempotent ==
    /\ [](/\ ~remove_pid(pidfile).exists
           /\ remove_pid(remove_pid(pidfile)) = remove_pid(pidfile)
           /\ (~pidfile.exists => remove_pid(pidfile) = pidfile))
    /\ [][\A p \in Instances :
            (pc[p] = "finally" /\ pc'[p] # pc[p] /\ p \notin sigterm) =>
               /\ pc'[p] = "exited" /\ released'[p]
               /\ ~pidfile'.exists]_vars

\* Two instances have run their cleanup: the first deleted the record,
\* the second found none, and both exited.
C15_Witness ==
    \E p \in Instances, q \in Instances :
        /\ p # q /\ released[p] /\ released[q]
        /\ acquired[p] /\ acquired[q]
        /\ pc[p] = "exited" /\ pc[q] = "exited"
        /\ ~pidfile.exists

\* C16: stop_existing finding a Lock Record whose content is no integer
\* sends no signal, no process gets one, the record is deleted and the
\* call returns normally after reporting the read failure.
C16_StopUnreadableRecord ==
    [][\A s \in Stoppers :
         (pc[s] = "stop_read" /\ pc'[s] # pc[s] /\ pidfile.exists
             /\ ~ReadPid(pidfile.content).ok) =>
            /\ pc'[s] = "stopped" /\ report'[s] = "failed to read"
            /\ exit_status'[s] = "zero"
            /\ sent'[s] = <<>> /\ sigterm' = sigterm
            /\ ~pidfile'.exists]_vars

\* stop_existing met an unreadable record: it reported the failure, sent
\* nothing and the record is gone.
C16_Witness ==
    \E s \in Stoppers :
        /\ pc[s] = "stopped" /\ report[s] = "failed to read"
        /\ sent[s] = <<>> /\ sigterm = {} /\ ~pidfile.exists

\* C17: an instance started with --no-create-pid never acquires: none of
\* its steps creates or rewrites the Lock Record (a step of it that
\* changes the record deletes it), while it enters the run phase only
\* after its is_running() check returned false.
C17_NoCreatePidNeverWrites ==
    /\ [](\A p \in Instances :
            no_create_pid[p] =>
               /\ ~acquired[p]
               /\ (pc[p] \in RunPcs => checked[p] = "false"))
    /\ [][\A p \in Instances :
            (no_create_pid[p] /\ pc'[p] # pc[p] /\ pidfile' # pidfile) =>
               ~pidfile'.exists]_vars

\* An instance started with --no-create-pid, found no record at its
\* check, is in its second sync and no record exists.
C17_Witness ==
    \E p \in Instances :
        /\ no_create_pid[p] /\ checked[p] = "false"
        /\ pc[p] = "run_rclone" /\ syncs[p] = MaxSyncs
        /\ ~acquired[p] /\ ~pidfile.exists

\* C18: the cleanup of an instance never deletes a Lock Record that holds
\* the identifier of a different instance that is in the run phase.
C18_ReleaseOnlyOwnLock ==
    [][\A p \in Instances :
         (pc[p] = "finally" /\ pc'[p] = "exited") =>
            \A q \in Instances \ {p} :
               ~(/\ pc[q] \in RunPcs
                 /\ pidfile = write_pid(q)
                 /\ ~pidfile'.exists)]_vars

\* C19: the Lock Record that stop_existing deletes at its end holds the
\* identifier it read and signalled.
C19_StopDeletesWhatItRead ==
    [][\A s \in Stoppers :
         (pc[s] = "stop_remove" /\ pc'[s] = "stopped" /\ pidfile.exists) =>
            ReadPid(pidfile.content) = target[s]]_vars

====
